---------------------------- MODULE Spec2Model ----------------------------
(***************************************************************************)
(* Replicated append-only log: one master (iteration_3/master.py) and its  *)
(* secondaries (iteration_3/secondary.py).                                 *)
(*                                                                         *)
(* The master's request threads, registration threads, per-secondary       *)
(* replication workers and heartbeat monitors, and every secondary's       *)
(* /replicate handler threads are modelled as interleaved atomic steps,    *)
(* one step per lock-protected region of the source.                       *)
(***************************************************************************)
EXTENDS Integers, Sequences, FiniteSets, TLC

(***************************************************************************)
(* Bounds of the model.                                                    *)
(***************************************************************************)
\* number of secondary servers that exist (urls 1..NumSec)
NumSec == 2
\* number of POST /messages requests (one Flask thread each)
MaxAppends == 2
\* number of injected failures: lost or timed-out RPCs, simulated 500s,
\* restarts
MaxFail == 1
\* longest run of consecutive failed heartbeat probes
MaxProbeRun == 4
\* number of retries of one message against a secondary that is down
MaxTries == 5

Sec == 1..NumSec
Req == 1..MaxAppends
Ids == 1..MaxAppends

(***************************************************************************)
(* Program constants.                                                      *)
(***************************************************************************)
\* RETRY_DELAY_INITIAL, RETRY_DELAY_MAX (seconds)
InitialRetryDelay == 1
MaxRetryDelay == 10
\* WRITE_CONCERN_TIMEOUT_SECONDS
WriteConcernTimeout == 0
\* HEARTBEAT_UNHEALTHY_THRESHOLD
HeartbeatUnhealthyThreshold == 3

\* a lock nobody holds
NoHolder == 0
\* a JSON field that is absent from the request body / Python's None
Absent == "absent"
\* a JSON payload that is not a string (a number, a list, ...)
NonString == "non-string"
\* a numeric JSON field that is absent from the request body / None
Missing == -1

VARIABLES
    \* ---- MasterServer fields
    messages,               \* self.messages: the master log
    next_id,                \* self.next_id
    secondaries,            \* self.secondaries: list of urls
    replication_managers,   \* self.replication_managers: urls in insertion order
    heartbeat_threads,      \* self.heartbeat_threads: urls with a monitor
    secondary_health,       \* self.secondary_health: url -> info or NoInfo
    message_ack_tracker,    \* self.message_ack_tracker: id -> set of urls
    message_lock,           \* holder of self.message_lock
    secondary_lock,         \* holder of self.secondary_lock
    \* ---- threads of the master
    req,                    \* handle_post_message threads
    reg,                    \* handle_register_secondary threads
    \* ---- SecondaryReplicationWorker, one per manager
    queue,                  \* worker.queue
    worker,                 \* position of worker._run / _deliver_with_retry
    enqueued,               \* history: every id ever put on worker.queue
    \* ---- SecondaryServer fields, one per secondary
    s_messages,             \* self.messages: the committed log
    message_hashes,         \* self.message_hashes
    pending_messages,       \* self.pending_messages
    next_expected_sequence, \* self.next_expected_sequence
    order_lock,             \* holder of self.order_lock
    handlers,               \* handle_replication threads in progress
    \* ---- environment
    fails,                  \* failures injected so far
    probe_run,              \* consecutive failed /health probes, so far
    \* ---- the atexit hook of the master
    shutdown                \* position of MasterServer.shutdown, its list
                            \* of managers, self.heartbeat_stop_event

masterVars == <<messages, next_id, secondaries, replication_managers,
                heartbeat_threads, secondary_health, message_ack_tracker,
                message_lock, secondary_lock>>
threadVars == <<req, reg>>
workerVars == <<queue, worker, enqueued>>
secVars == <<s_messages, message_hashes, pending_messages,
             next_expected_sequence, order_lock, handlers>>
vars == <<masterVars, threadVars, workerVars, secVars, fails, probe_run, shutdown>>

(***************************************************************************)
(* Helpers.                                                                *)
(***************************************************************************)
Range(f) == {f[i] : i \in DOMAIN f}

Min(a, b) == IF a <= b THEN a ELSE b

\* hashlib.sha256(message_text.encode('utf-8')).hexdigest(): a function of
\* the payload alone, distinct payloads giving distinct digests
Sha256(message_text) == <<"sha256", message_text>>

\* datetime.now().isoformat(): no decision of the program depends on it
Timestamp == "now"

\* the message_entry dict built by handle_post_message
MessageEntry(message_id, message_text) ==
    [id |-> message_id, sequence |-> message_id,
     message |-> message_text, timestamp |-> Timestamp,
     hash |-> Sha256(message_text)]

\* message_text.encode('utf-8') raises for a payload that is not a string
EncodeRaises(message_text) == message_text = NonString

\* a timeout_ms beyond every float: the JSON integer 10^400, or one so large
\* that the deadline is "out of range for platform time_t"
TooLarge == 2147483647

\* lines 519-523 and 541-547: float(client_timeout_ms) raises OverflowError,
\* which _get_wait_timeout does not catch (it catches TypeError and
\* ValueError), or Condition.wait(timeout=remaining) raises it
GetWaitTimeoutRaises(timeout) == timeout = TooLarge

\* lines 516-528 with WRITE_CONCERN_TIMEOUT_SECONDS = write_concern_timeout:
\* the client's timeout_ms when positive and None when it is not, else
\* the global default when positive, else None; in milliseconds
GetWaitTimeoutWith(timeout_ms, write_concern_timeout) ==
    IF timeout_ms # Missing
    THEN IF timeout_ms > 0 THEN timeout_ms ELSE Missing
    ELSE IF write_concern_timeout > 0 THEN write_concern_timeout * 1000
    ELSE Missing

\* a timeout_ms of 0 taken as a deadline that has passed at once
GetWaitTimeoutZeroDeadline(timeout_ms) ==
    IF timeout_ms # Missing THEN timeout_ms ELSE Missing

\* _get_wait_timeout of the master as it is configured
GetWaitTimeout(timeout_ms) ==
    GetWaitTimeoutWith(timeout_ms, WriteConcernTimeout)

(***************************************************************************)
(* Locks.  threading.Lock is not re-entrant: acquire succeeds only when    *)
(* nobody holds the lock, the calling thread included.                     *)
(***************************************************************************)
LockAcquirable(holder, thread) == holder = NoHolder

(***************************************************************************)
(* handle_post_message: one thread per request r.                          *)
(***************************************************************************)
IdleRequest ==
    [pc |-> "idle", message |-> Absent, w |-> 0, id |-> 0,
     timeout |-> Missing, todo |-> <<>>, status |-> 0]

\* write_concern after "write_concern -= 1"
Required(r) == req[r].w - 1

\* a validation that checks only the lower bound of w
PostMessageNoUpperBound(r, message_text, w, timeout_ms) ==
    /\ req[r].pc = "idle"
    /\ \A q \in Req : q < r => req[q].pc # "idle"
    /\ LET write_concern == IF w = Missing THEN Len(secondaries) + 1 ELSE w
       IN  IF message_text = Absent \/ write_concern < 1
           THEN req' = [req EXCEPT ![r].pc = "done", ![r].status = 400]
           ELSE req' = [req EXCEPT ![r].pc = "counter",
                                   ![r].message = message_text,
                                   ![r].w = write_concern,
                                   ![r].timeout = GetWaitTimeout(timeout_ms)]
    /\ UNCHANGED <<masterVars, reg, workerVars, secVars, fails, probe_run, shutdown>>

\* lines 371-383: parse and validate the request
PostMessage(r, message_text, w, timeout_ms) ==
    /\ req[r].pc = "idle"
    /\ \A q \in Req : q < r => req[q].pc # "idle"
    /\ LET max_w == Len(secondaries) + 1
           write_concern == IF w = Missing THEN Len(secondaries) + 1 ELSE w
       IN  IF message_text = Absent \/ write_concern < 1 \/ write_concern > max_w
           THEN req' = [req EXCEPT ![r].pc = "done", ![r].status = 400]
           ELSE req' = [req EXCEPT ![r].pc = "counter",
                                   ![r].message = message_text,
                                   ![r].w = write_concern,
                                   ![r].timeout = GetWaitTimeout(timeout_ms)]
    /\ UNCHANGED <<masterVars, reg, workerVars, secVars, fails, probe_run, shutdown>>

\* lines 385-399 and 442-444: take the id under counter_lock, then hash the
\* payload; an exception is answered 500 by the handler's except clause
NextId(r) ==
    /\ req[r].pc = "counter"
    /\ next_id' = next_id + 1
    /\ IF EncodeRaises(req[r].message)
       THEN req' = [req EXCEPT ![r].pc = "done", ![r].id = next_id,
                               ![r].status = 500]
       ELSE req' = [req EXCEPT ![r].pc = "append", ![r].id = next_id]
    /\ UNCHANGED <<messages, secondaries, replication_managers,
                   heartbeat_threads, secondary_health, message_ack_tracker,
                   message_lock, secondary_lock, reg, workerVars, secVars,
                   fails, probe_run, shutdown>>

\* the holder of message_lock when "with self.message_lock:" around the
\* append is left
MessageLockHeldUntilReturn(r) == r

MessageLockAfterAppend(r) == NoHolder

\* an append that skips a payload the log already holds
AppendLogDedup(r) ==
    /\ req[r].pc = "append"
    /\ LockAcquirable(message_lock, r)
    /\ messages' =
         IF \E j \in DOMAIN messages :
                messages[j].hash = Sha256(req[r].message)
         THEN messages
         ELSE Append(messages, MessageEntry(req[r].id, req[r].message))
    /\ message_lock' = MessageLockAfterAppend(r)
    /\ req' = [req EXCEPT ![r].pc = "fanout"]
    /\ UNCHANGED <<next_id, secondaries, replication_managers,
                   heartbeat_threads, secondary_health, message_ack_tracker,
                   secondary_lock, reg, workerVars, secVars, fails, probe_run, shutdown>>

\* lines 403-409: append to the master log under message_lock
AppendLog(r) ==
    /\ req[r].pc = "append"
    /\ LockAcquirable(message_lock, r)
    /\ messages' = Append(messages, MessageEntry(req[r].id, req[r].message))
    /\ message_lock' = MessageLockAfterAppend(r)
    /\ req' = [req EXCEPT ![r].pc = "fanout"]
    /\ UNCHANGED <<next_id, secondaries, replication_managers,
                   heartbeat_threads, secondary_health, message_ack_tracker,
                   secondary_lock, reg, workerVars, secVars, fails, probe_run, shutdown>>

\* what handle_post_message does once the fan-out is over (lines 414-422)
AfterFanOut(r) ==
    IF Required(r) <= 0
    THEN [req[r] EXCEPT !.pc = "done", !.status = 201, !.todo = <<>>]
    ELSE [req[r] EXCEPT !.pc = "track", !.todo = <<>>]

\* the managers replicate_to_all_secondaries enqueues on
FanOutWhenWaiting(r) == IF Required(r) > 0 THEN replication_managers ELSE <<>>

FanOutTargets(r) == replication_managers

\* lines 493-500: snapshot the managers under secondary_lock
ReplicateToAllSecondaries(r) ==
    /\ req[r].pc = "fanout"
    /\ LockAcquirable(secondary_lock, r)
    /\ req' = [req EXCEPT ![r] =
                 IF FanOutTargets(r) = <<>>
                 THEN AfterFanOut(r)
                 ELSE [req[r] EXCEPT !.pc = "enqueue",
                                     !.todo = FanOutTargets(r)]]
    /\ UNCHANGED <<masterVars, reg, workerVars, secVars, fails, probe_run, shutdown>>

\* lines 502-503: manager.enqueue_message(message_entry), one manager per
\* step; after the last one, lines 414-419 return 201 when w = 1
EnqueueMessage(r) ==
    /\ req[r].pc = "enqueue"
    /\ LET s == Head(req[r].todo)
           m == MessageEntry(req[r].id, req[r].message)
       IN  /\ queue' = [queue EXCEPT ![s] = Append(@, m)]
           /\ enqueued' = [enqueued EXCEPT ![s] = Append(@, m.id)]
    /\ req' = [req EXCEPT ![r] =
                 IF Len(req[r].todo) = 1
                 THEN AfterFanOut(r)
                 ELSE [req[r] EXCEPT !.todo = Tail(@)]]
    /\ UNCHANGED <<masterVars, reg, worker, secVars, fails, probe_run, shutdown>>

\* lines 421-425, 442-444 and 506-509: initialize_ack_tracking, then the
\* timeout is worked out and the wait starts; an exception on the way is
\* answered 500 by the handler's except clause
InitializeAckTracking(r) ==
    /\ req[r].pc = "track"
    /\ message_ack_tracker' =
         [i \in DOMAIN message_ack_tracker \cup {req[r].id} |->
            IF i = req[r].id THEN {} ELSE message_ack_tracker[i]]
    /\ req' = IF GetWaitTimeoutRaises(req[r].timeout)
              THEN [req EXCEPT ![r].pc = "done", ![r].status = 500]
              ELSE [req EXCEPT ![r].pc = "wait"]
    /\ UNCHANGED <<messages, next_id, secondaries, replication_managers,
                   heartbeat_threads, secondary_health, message_lock,
                   secondary_lock, reg, workerVars, secVars, fails, probe_run, shutdown>>

\* len(self.message_ack_tracker.get(message_id, set()))
Acked(message_id) ==
    IF message_id \in DOMAIN message_ack_tracker
    THEN Cardinality(message_ack_tracker[message_id])
    ELSE 0

\* lines 530-549: wait_for_write_concern leaves its loop with True
WaitForWriteConcernMet(r) ==
    /\ req[r].pc = "wait"
    /\ Acked(req[r].id) >= Required(r)
    /\ req' = [req EXCEPT ![r].pc = "cleanup", ![r].status = 201]
    /\ UNCHANGED <<masterVars, reg, workerVars, secVars, fails, probe_run, shutdown>>

\* a deadline that takes the message off every worker queue again
WaitForWriteConcernTimeoutCancels(r) ==
    /\ req[r].pc = "wait"
    /\ req[r].timeout # Missing
    /\ Acked(req[r].id) < Required(r)
    /\ req' = [req EXCEPT ![r].pc = "cleanup", ![r].status = 202]
    /\ queue' = [s \in Sec |->
                   SelectSeq(queue[s], LAMBDA m : m.id # req[r].id)]
    /\ UNCHANGED <<masterVars, reg, worker, enqueued, secVars, fails, probe_run, shutdown>>

\* lines 543-546: the deadline passed and the acks are still too few
WaitForWriteConcernTimeout(r) ==
    /\ req[r].pc = "wait"
    /\ req[r].timeout # Missing
    /\ Acked(req[r].id) < Required(r)
    /\ req' = [req EXCEPT ![r].pc = "cleanup", ![r].status = 202]
    /\ UNCHANGED <<masterVars, reg, workerVars, secVars, fails, probe_run, shutdown>>

\* lines 426-440 and 511-514: cleanup_ack_tracking, then the response
CleanupAckTracking(r) ==
    /\ req[r].pc = "cleanup"
    /\ message_ack_tracker' =
         [i \in DOMAIN message_ack_tracker \ {req[r].id} |->
            message_ack_tracker[i]]
    /\ message_lock' = IF message_lock = r THEN NoHolder ELSE message_lock
    /\ req' = [req EXCEPT ![r].pc = "done"]
    /\ UNCHANGED <<messages, next_id, secondaries, replication_managers,
                   heartbeat_threads, secondary_health, secondary_lock,
                   reg, workerVars, secVars, fails, probe_run, shutdown>>

(***************************************************************************)
(* handle_secondary_ack: called by a worker after a 200 response.          *)
(***************************************************************************)
\* an ack that counts for every secondary there is
HandleSecondaryAckForAll(tracker, secondary_url, message_id) ==
    IF message_id \notin DOMAIN tracker
    THEN tracker
    ELSE [tracker EXCEPT ![message_id] = @ \cup Sec]

\* an ack that makes the entry it does not find
HandleSecondaryAckCreates(tracker, secondary_url, message_id) ==
    [i \in DOMAIN tracker \cup {message_id} |->
       IF i \in DOMAIN tracker
       THEN IF i = message_id THEN tracker[i] \cup {secondary_url}
                              ELSE tracker[i]
       ELSE {secondary_url}]

\* lines 551-569: the tracker after ack(secondary_url, message_id)
HandleSecondaryAck(tracker, secondary_url, message_id) ==
    IF message_id \notin DOMAIN tracker
    THEN tracker
    ELSE [tracker EXCEPT ![message_id] = @ \cup {secondary_url}]

(***************************************************************************)
(* Heartbeat monitor and health record, one per secondary.                 *)
(***************************************************************************)
\* a url that secondary_health has no entry for
NoInfo == [status |-> "Unknown", failure_count |-> 0]

\* a health record whose failure_count is not reset by a good probe
HeartbeatUpdateNoReset(info, is_healthy) ==
    LET cur == IF info = NoInfo
               THEN [status |-> "Healthy", failure_count |-> 0]
               ELSE info
    IN  IF is_healthy
        THEN [status |-> "Healthy", failure_count |-> cur.failure_count]
        ELSE [status |-> IF cur.failure_count + 1 >= HeartbeatUnhealthyThreshold
                         THEN "Unhealthy" ELSE "Suspected",
              failure_count |-> cur.failure_count + 1]

\* a health record that turns Unhealthy one failed probe too late
HeartbeatUpdateLate(info, is_healthy) ==
    LET cur == IF info = NoInfo
               THEN [status |-> "Healthy", failure_count |-> 0]
               ELSE info
    IN  IF is_healthy
        THEN [status |-> "Healthy", failure_count |-> 0]
        ELSE [status |-> IF cur.failure_count + 1 > HeartbeatUnhealthyThreshold
                         THEN "Unhealthy" ELSE "Suspected",
              failure_count |-> cur.failure_count + 1]

\* lines 275-293: the health record after one probe
HeartbeatUpdate(info, is_healthy) ==
    LET cur == IF info = NoInfo
               THEN [status |-> "Healthy", failure_count |-> 0]
               ELSE info
    IN  IF is_healthy
        THEN [status |-> "Healthy", failure_count |-> 0]
        ELSE [status |-> IF cur.failure_count + 1 >= HeartbeatUnhealthyThreshold
                         THEN "Unhealthy" ELSE "Suspected",
              failure_count |-> cur.failure_count + 1]

\* lines 261-306: one iteration of _heartbeat_loop, the probe answered 200
\* (is_healthy) or not
HeartbeatLoop(s, is_healthy) ==
    /\ s \in heartbeat_threads
    /\ ~shutdown.heartbeat_stop_event
    /\ ~is_healthy => probe_run[s] < MaxProbeRun
    /\ probe_run' = [probe_run EXCEPT ![s] = IF is_healthy THEN 0 ELSE @ + 1]
    /\ secondary_health' =
         [secondary_health EXCEPT ![s] = HeartbeatUpdate(@, is_healthy)]
    /\ UNCHANGED <<messages, next_id, secondaries, replication_managers,
                   heartbeat_threads, message_ack_tracker, message_lock,
                   secondary_lock, threadVars, workerVars, secVars, fails,
                   shutdown>>

\* lines 308-315: is_secondary_healthy
IsSecondaryHealthy(s) ==
    \/ secondary_health[s] = NoInfo
    \/ secondary_health[s].status = "Healthy"

(***************************************************************************)
(* SecondaryReplicationWorker, one per manager.                            *)
(***************************************************************************)
NoMessage == MessageEntry(0, Absent)

NoWorker ==
    [pc |-> "none", cur |-> NoMessage, delay |-> 0, tries |-> 0,
     stop |-> FALSE]

NewWorker ==
    [pc |-> "get", cur |-> NoMessage, delay |-> 0, tries |-> 0,
     stop |-> FALSE]

\* a worker that takes the newest message of its queue
WorkerGetNewest(s) ==
    /\ worker[s].pc = "get"
    /\ ~worker[s].stop
    /\ queue[s] # <<>>
    /\ worker' = [worker EXCEPT ![s] =
                     [pc |-> "loop", cur |-> queue[s][Len(queue[s])],
                      delay |-> InitialRetryDelay, tries |-> 0,
                      stop |-> FALSE]]
    /\ queue' = [queue EXCEPT ![s] = SubSeq(@, 1, Len(@) - 1)]
    /\ UNCHANGED <<masterVars, threadVars, enqueued, secVars, fails, probe_run, shutdown>>

\* lines 72-83: _run takes the next message; _deliver_with_retry starts
\* with delay = initial_retry_delay
WorkerGet(s) ==
    /\ worker[s].pc = "get"
    /\ ~worker[s].stop
    /\ queue[s] # <<>>
    /\ worker' = [worker EXCEPT ![s] = [pc |-> "loop", cur |-> Head(queue[s]),
                                        delay |-> InitialRetryDelay, tries |-> 0,
                      stop |-> FALSE]]
    /\ queue' = [queue EXCEPT ![s] = Tail(@)]
    /\ UNCHANGED <<masterVars, threadVars, enqueued, secVars, fails, probe_run, shutdown>>

\* lines 86-97: the secondary is not healthy, the worker waits
WorkerPause(s) ==
    /\ worker[s].pc = "loop"
    /\ ~worker[s].stop
    /\ ~IsSecondaryHealthy(s)
    /\ worker' = [worker EXCEPT ![s].pc = "wait_healthy"]
    /\ UNCHANGED <<masterVars, threadVars, queue, enqueued, secVars, fails, probe_run, shutdown>>

\* a wait that ends with the worker back at its queue, the message gone
WaitForSecondaryHealthyDrops(s) ==
    /\ worker[s].pc = "wait_healthy"
    /\ IsSecondaryHealthy(s)
    /\ worker' = [worker EXCEPT ![s].pc = "get", ![s].cur = NoMessage]
    /\ UNCHANGED <<masterVars, threadVars, queue, enqueued, secVars, fails, probe_run, shutdown>>

\* lines 317-325: wait_for_secondary_healthy returns: the status is Healthy
\* when the worker looks, after a notify_all or after the timeout of its
\* wait
WaitForSecondaryHealthy(s) ==
    /\ worker[s].pc = "wait_healthy"
    /\ IsSecondaryHealthy(s)
    /\ worker' = [worker EXCEPT ![s].pc = "loop"]
    /\ UNCHANGED <<masterVars, threadVars, queue, enqueued, secVars, fails, probe_run, shutdown>>

\* a handle_replication thread of a secondary: the message it received,
\* its position, its response and whether the worker still awaits it
NewHandler(message_entry) ==
    [msg |-> message_entry, pc |-> "recv", resp |-> Absent, live |-> TRUE]

\* lines 101-106: session.post reaches the secondary
WorkerPost(s) ==
    /\ worker[s].pc = "loop"
    /\ ~worker[s].stop
    /\ IsSecondaryHealthy(s)
    /\ handlers' = [handlers EXCEPT ![s] = Append(@, NewHandler(worker[s].cur))]
    /\ worker' = [worker EXCEPT ![s].pc = "rpc"]
    /\ UNCHANGED <<masterVars, threadVars, queue, enqueued, s_messages,
                   message_hashes, pending_messages, next_expected_sequence,
                   order_lock, fails, probe_run, shutdown>>

\* lines 122-128: session.post raises before the secondary sees the
\* request (connection error)
WorkerPostFails(s) ==
    /\ worker[s].pc = "loop"
    /\ ~worker[s].stop
    /\ IsSecondaryHealthy(s)
    /\ fails < MaxFail
    /\ fails' = fails + 1
    /\ UNCHANGED <<probe_run, shutdown>>
    /\ worker' = [worker EXCEPT ![s].pc = "backoff"]
    /\ UNCHANGED <<masterVars, threadVars, queue, enqueued, secVars>>

\* lines 122-128: session.post raises because nothing listens at the url
\* of the secondary (its process is down); this can go on for any time
WorkerPostUnreachable(s) ==
    /\ worker[s].pc = "loop"
    /\ ~worker[s].stop
    /\ IsSecondaryHealthy(s)
    /\ worker[s].tries < MaxTries
    /\ worker' = [worker EXCEPT ![s].pc = "backoff"]
    /\ UNCHANGED <<masterVars, threadVars, queue, enqueued, secVars, fails, probe_run, shutdown>>

\* lines 72-73, 84, 135-136 and 319: stop_event is set; queue.get returns
\* the None of stop(), the loop conditions of _run, _deliver_with_retry and
\* wait_for_secondary_healthy fail, stop_event.wait(delay) returns True:
\* the thread of the worker ends
WorkerStops(s) ==
    /\ worker[s].stop
    /\ worker[s].pc \in {"get", "loop", "backoff", "wait_healthy"}
    /\ worker' = [worker EXCEPT ![s].pc = "stopped"]
    /\ UNCHANGED <<masterVars, threadVars, queue, enqueued, secVars, fails,
                   probe_run, shutdown>>

\* a handler that can never answer: it waits for order_lock and the
\* holder never releases it
Stuck(s, h) ==
    \/ h.pc = "blocked"
    \/ h.pc = "insert" /\ order_lock[s] # NoHolder

\* lines 122-128: request_timeout elapses; the handler goes on without a
\* client.  A timeout against a handler that could still answer is a
\* failure of the environment
WorkerTimeout(s) ==
    /\ worker[s].pc = "rpc"
    /\ \E i \in DOMAIN handlers[s] :
         /\ handlers[s][i].live
         /\ \/ Stuck(s, handlers[s][i]) /\ fails' = fails
            \/ ~Stuck(s, handlers[s][i]) /\ fails < MaxFail
                 /\ fails' = fails + 1
         /\ handlers' = [handlers EXCEPT ![s][i].live = FALSE]
    /\ worker' = [worker EXCEPT ![s].pc = "backoff"]
    /\ UNCHANGED <<probe_run, shutdown>>
    /\ UNCHANGED <<masterVars, threadVars, queue, enqueued, s_messages,
                   message_hashes, pending_messages, next_expected_sequence,
                   order_lock>>

\* a delay that doubles without a ceiling
NextDelayUnclamped(delay) == delay * 2

\* line 137: the delay before the next retry
NextDelay(delay) == Min(delay * 2, MaxRetryDelay)

\* lines 130-137: stop_event.wait(delay) ends, the loop starts again; tries
\* counts the retries of the current message
WorkerBackoff(s) ==
    /\ worker[s].pc = "backoff"
    /\ ~worker[s].stop
    /\ worker' = [worker EXCEPT ![s].pc = "loop",
                                ![s].delay = NextDelay(@),
                                ![s].tries = @ + 1]
    /\ UNCHANGED <<masterVars, threadVars, queue, enqueued, secVars, fails, probe_run, shutdown>>

(***************************************************************************)
(* SecondaryServer.handle_replication: one thread per request received.    *)
(* A thread that got past the duplicate check is identified by the id of   *)
(* its message.                                                            *)
(***************************************************************************)
\* the sequence q without its i-th element
RemoveAt(q, i) == [j \in 1..(Len(q) - 1) |-> IF j < i THEN q[j] ELSE q[j + 1]]

\* lines 211-220: the entry a secondary stores
ReplicaEntry(data, server_id) ==
    [id |-> data.id, sequence |-> data.sequence, message |-> data.message,
     timestamp |-> data.timestamp, hash |-> data.hash,
     replicated_by |-> server_id]

\* line 198: the fields a /replicate body must have
RequiredFields == {"id", "sequence", "message", "timestamp", "hash"}

\* a validation that does not ask for the timestamp
ValidBodyNoTimestamp(data) ==
    /\ DOMAIN data # {}
    /\ RequiredFields \ {"timestamp"} \subseteq DOMAIN data

\* lines 193-200: "not data" is false and every required field is there
ValidBody(data) ==
    /\ DOMAIN data # {}
    /\ RequiredFields \subseteq DOMAIN data

\* a lookup that never finds the hash
IsDuplicateMessageNever(hashes, message_hash) == FALSE

\* lines 108-117: is_duplicate_message, the test
IsDuplicateMessage(hashes, message_hash) == message_hash \in hashes

\* lines 193-209: the body is validated, then the hash is looked up and,
\* when new, added, under dedup_lock
HandlerDedup(s, i) ==
    /\ i \in DOMAIN handlers[s]
    /\ handlers[s][i].pc = "recv"
    /\ LET h == handlers[s][i]
       IN  IF ~ValidBody(h.msg)
           THEN /\ handlers' = [handlers EXCEPT ![s][i].pc = "respond",
                                                ![s][i].resp = "invalid"]
                /\ UNCHANGED message_hashes
           ELSE IF IsDuplicateMessage(message_hashes[s], h.msg.hash)
           THEN /\ handlers' = [handlers EXCEPT ![s][i].pc = "respond",
                                                ![s][i].resp = "duplicate"]
                /\ UNCHANGED message_hashes
           ELSE /\ handlers' = [handlers EXCEPT ![s][i].pc = "insert"]
                /\ message_hashes' =
                     [message_hashes EXCEPT ![s] = @ \cup {h.msg.hash}]
    /\ UNCHANGED <<masterVars, threadVars, workerVars, s_messages,
                   pending_messages, next_expected_sequence, order_lock,
                   fails, probe_run, shutdown>>

\* an increment that is forgotten
NextExpectedStays(e) == e

\* lines 150 and 168: next_expected_sequence += 1, after an append
NextExpected(e) == e + 1

\* lines 142-150: the loop of process_pending_messages, from committed log
\* log, pending buffer pending and next expected sequence e
RECURSIVE DrainPending(_, _, _)
DrainPending(log, pending, e) ==
    IF e \in DOMAIN pending
    THEN DrainPending(Append(log, pending[e]),
                      [k \in DOMAIN pending \ {e} |-> pending[k]],
                      NextExpected(e))
    ELSE [log |-> log, pending |-> pending, e |-> e]

\* lines 162, 173, 178: what insert_in_total_order does with a sequence
InsertBranchAlwaysAppend(sequence, e) == "append"

\* an insert that buffers the expected sequence as well
InsertBranchBuffersExpected(sequence, e) ==
    IF sequence >= e THEN "pending" ELSE "ignore"

InsertBranch(sequence, e) ==
    IF sequence = e THEN "append"
    ELSE IF sequence > e THEN "pending"
    ELSE "ignore"

\* lines 157-180 with 139-155: insert_in_total_order.  In the first branch
\* process_pending_messages is called with order_lock held and acquires
\* order_lock itself (line 141)
InsertInTotalOrder(s, i) ==
    /\ i \in DOMAIN handlers[s]
    /\ handlers[s][i].pc = "insert"
    /\ LockAcquirable(order_lock[s], handlers[s][i].msg.id)
    /\ LET h == handlers[s][i]
           me == h.msg.id
           entry == ReplicaEntry(h.msg, s)
           e == next_expected_sequence[s]
           branch == InsertBranch(h.msg.sequence, e)
           appended == Append(s_messages[s], entry)
           drained == DrainPending(appended, pending_messages[s],
                                   NextExpected(e))
       IN  CASE branch = "append" /\ LockAcquirable(me, me) ->
                  /\ s_messages' = [s_messages EXCEPT ![s] = drained.log]
                  /\ pending_messages' =
                       [pending_messages EXCEPT ![s] = drained.pending]
                  /\ next_expected_sequence' =
                       [next_expected_sequence EXCEPT ![s] = drained.e]
                  /\ handlers' = [handlers EXCEPT ![s][i].pc = "respond",
                                                  ![s][i].resp = "replicated"]
                  /\ UNCHANGED order_lock
             [] branch = "append" /\ ~LockAcquirable(me, me) ->
                  /\ s_messages' = [s_messages EXCEPT ![s] = appended]
                  /\ next_expected_sequence' =
                       [next_expected_sequence EXCEPT ![s] = NextExpected(e)]
                  /\ order_lock' = [order_lock EXCEPT ![s] = me]
                  /\ handlers' = [handlers EXCEPT ![s][i].pc = "blocked"]
                  /\ UNCHANGED pending_messages
             [] branch = "pending" ->
                  /\ pending_messages' =
                       [pending_messages EXCEPT ![s] =
                          [k \in DOMAIN @ \cup {h.msg.sequence} |->
                             IF k = h.msg.sequence THEN entry ELSE @[k]]]
                  /\ handlers' = [handlers EXCEPT ![s][i].pc = "respond",
                                                  ![s][i].resp = "replicated"]
                  /\ UNCHANGED <<s_messages, next_expected_sequence,
                                 order_lock>>
             [] OTHER ->
                  /\ handlers' = [handlers EXCEPT ![s][i].pc = "respond",
                                                  ![s][i].resp = "replicated"]
                  /\ UNCHANGED <<s_messages, pending_messages,
                                 next_expected_sequence, order_lock>>
    /\ UNCHANGED <<masterVars, threadVars, workerVars, message_hashes,
                   fails, probe_run, shutdown>>

\* a worker that drops its message whatever the answer is
WorkerGivesUp(s, status_code) ==
    [worker[s] EXCEPT !.pc = "get", !.cur = NoMessage]

\* the worker after its RPC was answered: lines 107-114 on 200 (ack, then
\* back to the queue), lines 115-121 and 130-135 on any other status
WorkerAfterResponse(s, status_code) ==
    IF status_code = 200
    THEN [worker[s] EXCEPT !.pc = "get", !.cur = NoMessage]
    ELSE [worker[s] EXCEPT !.pc = "backoff"]

\* lines 195, 200, 206-209, 233-239: the status of the handler's answer
StatusCode(resp) == IF resp = "invalid" THEN 400 ELSE 200

\* lines 194-200, 204-209 and 232-239: the handler answers 400 or 200; a
\* worker that still awaits the answer calls ack_callback on a 200
HandlerRespond(s, i) ==
    /\ i \in DOMAIN handlers[s]
    /\ handlers[s][i].pc = "respond"
    /\ LET h == handlers[s][i]
       IN  IF h.live
           THEN /\ worker' = [worker EXCEPT ![s] =
                                WorkerAfterResponse(s, StatusCode(h.resp))]
                /\ message_ack_tracker' =
                     IF StatusCode(h.resp) = 200
                     THEN HandleSecondaryAck(message_ack_tracker, s, h.msg.id)
                     ELSE message_ack_tracker
           ELSE UNCHANGED <<worker, message_ack_tracker>>
    /\ handlers' = [handlers EXCEPT ![s] = RemoveAt(@, i)]
    /\ UNCHANGED <<messages, next_id, secondaries, replication_managers,
                   heartbeat_threads, secondary_health, message_lock,
                   secondary_lock, threadVars, queue, enqueued, s_messages,
                   message_hashes, pending_messages, next_expected_sequence,
                   order_lock, fails, probe_run, shutdown>>

\* lines 186 and 227-230: the simulated error, after the insert
HandlerError(s, i) ==
    /\ i \in DOMAIN handlers[s]
    /\ handlers[s][i].pc = "respond"
    /\ handlers[s][i].resp = "replicated"
    /\ fails < MaxFail
    /\ fails' = fails + 1
    /\ UNCHANGED <<probe_run, shutdown>>
    /\ worker' = IF handlers[s][i].live
                 THEN [worker EXCEPT ![s] = WorkerAfterResponse(s, 500)]
                 ELSE worker
    /\ handlers' = [handlers EXCEPT ![s] = RemoveAt(@, i)]
    /\ UNCHANGED <<masterVars, threadVars, queue, enqueued, s_messages,
                   message_hashes, pending_messages, next_expected_sequence,
                   order_lock>>

(***************************************************************************)
(* handle_register_secondary: one thread per registering secondary.        *)
(***************************************************************************)
RegThread(s) == MaxAppends + s

\* a registration that does not look whether the url is known
HandleRegisterSecondaryAgain(s) ==
    /\ reg[s].pc \in {"idle", "rejoin"}
    /\ LockAcquirable(secondary_lock, RegThread(s))
    /\ secondaries' = Append(secondaries, s)
    /\ secondary_lock' = RegThread(s)
    /\ worker' = [worker EXCEPT ![s] = NewWorker]
    /\ reg' = [reg EXCEPT ![s].pc = "snapshot"]
    /\ UNCHANGED <<messages, next_id, replication_managers,
                   heartbeat_threads, secondary_health, message_ack_tracker,
                   message_lock, req, queue, enqueued, secVars, fails, probe_run, shutdown>>

\* lines 477-486 and 217-230: a new url is added to the list and its
\* worker is created, under secondary_lock, which stays held.  A known url
\* changes nothing: the request is answered "registered" and that is all
HandleRegisterSecondary(s) ==
    /\ reg[s].pc \in {"idle", "rejoin"}
    /\ LockAcquirable(secondary_lock, RegThread(s))
    /\ IF s \in Range(secondaries)
       THEN /\ reg' = [reg EXCEPT ![s].pc = "idle"]
            /\ UNCHANGED <<secondaries, secondary_lock, worker>>
       ELSE /\ secondaries' = Append(secondaries, s)
            /\ secondary_lock' = RegThread(s)
            /\ worker' = [worker EXCEPT ![s] = NewWorker]
            /\ reg' = [reg EXCEPT ![s].pc = "snapshot"]
    /\ UNCHANGED <<messages, next_id, replication_managers,
                   heartbeat_threads, secondary_health, message_ack_tracker,
                   message_lock, req, queue, enqueued, secVars, fails, probe_run, shutdown>>

\* lines 232-233: the backlog is a copy of the log, taken under
\* message_lock
SnapshotBacklog(s) ==
    /\ reg[s].pc = "snapshot"
    /\ LockAcquirable(message_lock, RegThread(s))
    /\ reg' = [reg EXCEPT ![s] = [pc |-> "backlog", backlog |-> messages]]
    /\ UNCHANGED <<masterVars, req, workerVars, secVars, fails, probe_run, shutdown>>

\* a manager that is published without its backlog
EnsureReplicationManagerNoBacklog(s) ==
    /\ reg[s].pc = "backlog"
    /\ replication_managers' = Append(replication_managers, s)
    /\ heartbeat_threads' = heartbeat_threads \cup {s}
    /\ secondary_lock' = NoHolder
    /\ reg' = [reg EXCEPT ![s] = [pc |-> "idle", backlog |-> <<>>]]
    /\ UNCHANGED <<messages, next_id, secondaries, secondary_health,
                   message_ack_tracker, message_lock, req, workerVars,
                   secVars, fails, probe_run, shutdown>>

\* lines 235-239, 483 and 247-259: the backlog is enqueued, the manager is
\* published, the heartbeat monitor is started, secondary_lock is released
EnsureReplicationManager(s) ==
    /\ reg[s].pc = "backlog"
    /\ queue' = [queue EXCEPT ![s] = @ \o reg[s].backlog]
    /\ enqueued' = [enqueued EXCEPT ![s] =
                      @ \o [j \in DOMAIN reg[s].backlog |-> reg[s].backlog[j].id]]
    /\ replication_managers' = Append(replication_managers, s)
    /\ heartbeat_threads' = heartbeat_threads \cup {s}
    /\ secondary_lock' = NoHolder
    /\ reg' = [reg EXCEPT ![s] = [pc |-> "idle", backlog |-> <<>>]]
    /\ UNCHANGED <<messages, next_id, secondaries, secondary_health,
                   message_ack_tracker, message_lock, req, worker, secVars,
                   fails, probe_run, shutdown>>

(***************************************************************************)
(* The system: the master starts with the first k secondaries of its       *)
(* SECONDARIES list; the others register later.                            *)
(***************************************************************************)
\* the atexit hook has not started
NoShutdown == [pc |-> "idle", todo |-> <<>>, heartbeat_stop_event |-> FALSE]

\* the keys of a dict filled from the list urls: each url once, in the
\* order of its first occurrence
RECURSIVE DictKeys(_)
DictKeys(urls) ==
    IF urls = <<>> THEN <<>>
    ELSE LET front == DictKeys(SubSeq(urls, 1, Len(urls) - 1))
             last == urls[Len(urls)]
         IN  IF last \in Range(front) THEN front ELSE Append(front, last)

\* lines 140-184 and 202-259: the master after __init__ with SECONDARIES
\* = urls: load_secondaries keeps the list as it is written;
\* _ensure_replication_manager and _ensure_heartbeat_monitor make one
\* manager and one monitor per url that is not yet a key of their dict
InitFrom(urls, log) ==
    /\ messages = log
    /\ next_id = Len(log) + 1
    /\ secondaries = urls
    /\ replication_managers = DictKeys(urls)
    /\ heartbeat_threads = Range(urls)
    /\ secondary_health = [s \in Sec |-> NoInfo]
    /\ message_ack_tracker = << >>
    /\ message_lock = NoHolder
    /\ secondary_lock = NoHolder
    /\ req = [r \in Req |-> IdleRequest]
    /\ reg = [s \in Sec |-> [pc |-> "idle", backlog |-> <<>>]]
    /\ queue = [s \in Sec |-> <<>>]
    /\ worker = [s \in Sec |->
                   IF s \in Range(urls) THEN NewWorker ELSE NoWorker]
    /\ enqueued = [s \in Sec |-> <<>>]
    /\ s_messages = [s \in Sec |-> <<>>]
    /\ message_hashes = [s \in Sec |-> {}]
    /\ pending_messages = [s \in Sec |-> << >>]
    /\ next_expected_sequence = [s \in Sec |-> 1]
    /\ order_lock = [s \in Sec |-> NoHolder]
    /\ handlers = [s \in Sec |-> <<>>]
    /\ fails = 0
    /\ probe_run = [s \in Sec |-> 0]
    /\ shutdown = NoShutdown

\* SECONDARIES names the first seeded secondaries
InitState(seeded, log) == InitFrom([j \in 1..seeded |-> j], log)

InitWith(seeded) == InitState(seeded, <<>>)

\* lines 446-464: handle_get_messages copies the log under message_lock
\* and answers with the id and message of every entry
GetMessagesResponse(log) ==
    [i \in DOMAIN log |-> [id |-> log[i].id, message |-> log[i].message]]

\* GET /messages on the master; the response is no state of the server
HandleGetMessages ==
    /\ LockAcquirable(message_lock, NoHolder)
    /\ UNCHANGED vars

\* the steps of a request thread that need no acknowledgement
RequestStep(r) ==
    \/ NextId(r)
    \/ AppendLog(r)
    \/ ReplicateToAllSecondaries(r)
    \/ EnqueueMessage(r)
    \/ InitializeAckTracking(r)
    \/ WaitForWriteConcernTimeout(r)
    \/ CleanupAckTracking(r)

\* the steps of the worker of secondary s while s is healthy
WorkerStep(s) ==
    \/ WorkerGet(s)
    \/ WorkerPost(s)
    \/ WorkerPostFails(s)
    \/ WorkerTimeout(s)
    \/ WorkerBackoff(s)

\* the steps of the heartbeat monitor of s and of a worker it pauses
HealthStep(s) ==
    \/ \E is_healthy \in BOOLEAN : HeartbeatLoop(s, is_healthy)
    \/ WorkerPause(s)
    \/ WaitForSecondaryHealthy(s)

\* a handler that appends whatever it receives
HandlerAppendAlways(s, i) ==
    /\ handlers[s][i].pc = "recv"
    /\ s_messages' = [s_messages EXCEPT ![s] =
                        Append(@, ReplicaEntry(handlers[s][i].msg, s))]
    /\ handlers' = [handlers EXCEPT ![s][i].pc = "respond",
                                    ![s][i].resp = "replicated"]
    /\ UNCHANGED <<masterVars, threadVars, workerVars, message_hashes,
                   pending_messages, next_expected_sequence, order_lock,
                   fails, probe_run, shutdown>>

HandlerStepNaive(s) ==
    \E i \in DOMAIN handlers[s] :
        \/ HandlerAppendAlways(s, i)
        \/ HandlerRespond(s, i)
        \/ HandlerError(s, i)

\* the steps of the handle_replication threads of secondary s
HandlerStep(s) ==
    \E i \in DOMAIN handlers[s] :
        \/ HandlerDedup(s, i)
        \/ InsertInTotalOrder(s, i)
        \/ HandlerRespond(s, i)
        \/ HandlerError(s, i)

RegisterStep(s) ==
    \/ HandleRegisterSecondary(s)
    \/ SnapshotBacklog(s)
    \/ EnsureReplicationManager(s)

\* payloads are interchangeable: the first one used is called "a"
Payloads == {"a", "b"}

FirstUse(m) == m = "a" \/ \E q \in Req : req[q].message = "a"

(***************************************************************************)
(* Spec: the whole pipeline, from POST /messages to the committed log of   *)
(* the secondaries 1..PipeSec, with lost and timed-out RPCs and simulated  *)
(* errors.  Every request carries a timeout_ms.                            *)
(***************************************************************************)
\* number of secondaries that take part in Spec
PipeSec == 1

Init == \E seeded \in 0..PipeSec : InitWith(seeded)

Next ==
    \/ \E r \in Req, m \in Payloads, w \in 1..(PipeSec + 1) :
          FirstUse(m) /\ PostMessage(r, m, w, 1000)
    \/ \E r \in Req : RequestStep(r) \/ WaitForWriteConcernMet(r)
    \/ \E s \in 1..PipeSec : WorkerStep(s) \/ HandlerStep(s) \/ RegisterStep(s)

Spec == Init /\ [][Next]_vars

(***************************************************************************)
(* SpecAppend: the master alone.  Clients send any request body, the       *)
(* secondaries register at any time, and no worker runs, so that no        *)
(* acknowledgement ever arrives.                                           *)
(***************************************************************************)
\* the timeout_ms of a request body: none, zero, a second
Timeouts == {Missing, 0, 1000}

InitAppend == \E seeded \in 0..NumSec : InitWith(seeded)

NextAppend ==
    \/ \E r \in Req, m \in Payloads \cup {NonString, Absent},
          w \in {Missing} \cup 0..(NumSec + 2), t \in Timeouts :
          FirstUse(m) /\ PostMessage(r, m, w, t)
    \/ \E r \in Req : RequestStep(r)
    \/ \E s \in Sec : RegisterStep(s)
    \/ HandleGetMessages

SpecAppend == InitAppend /\ [][NextAppend]_vars

(***************************************************************************)
(* SpecSeed: the master alone, started with any SECONDARIES list of at     *)
(* most NumSec urls, a url written twice included; clients append with any *)
(* w, with a timeout_ms of a second or one that no float holds, and the    *)
(* secondaries that are not in the list register.                          *)
(***************************************************************************)
\* the lists a SECONDARIES variable can hold
SeedLists ==
    UNION {[1..n -> Sec] : n \in 0..NumSec}

InitSeed == \E urls \in SeedLists : InitFrom(urls, <<>>)

NextSeed ==
    \/ \E r \in Req, w \in {Missing} \cup 1..(NumSec + 1),
          t \in {1000, TooLarge} :
          PostMessage(r, "a", w, t)
    \/ \E r \in Req : RequestStep(r)
    \/ \E s \in Sec : RegisterStep(s)

SpecSeed == InitSeed /\ [][NextSeed]_vars

(***************************************************************************)
(* SpecWait: the pipeline of Spec with one secondary known from the start  *)
(* and clients that give no timeout_ms, 0, or a second.                    *)
(***************************************************************************)
InitWait == InitWith(PipeSec)

NextWait ==
    \/ \E r \in Req, w \in 1..(PipeSec + 1), t \in Timeouts :
          PostMessage(r, "a", w, t)
    \/ \E r \in Req : RequestStep(r) \/ WaitForWriteConcernMet(r)
    \/ \E s \in 1..PipeSec : WorkerStep(s) \/ HandlerStep(s)

SpecWait == InitWait /\ [][NextWait]_vars

(***************************************************************************)
(* SpecRecv: one secondary alone.  The master log holds RecvMsgs messages  *)
(* (appended with w = 1 while no secondary was known); a client posts them *)
(* to /replicate of secondary 1 in any order, concurrently, and posts some *)
(* of them again.                                                          *)
(***************************************************************************)
\* number of messages of the master log in SpecRecv
RecvMsgs == 3

\* message_entry was posted to s before
Posted(s, message_entry) ==
    \/ message_entry.hash \in message_hashes[s]
    \/ \E i \in DOMAIN handlers[s] : handlers[s][i].msg = message_entry

\* POST /replicate from a client that does not wait for the answer; a
\* repeated post is a re-delivery
ClientReplicate(s, message_entry) ==
    /\ Posted(s, message_entry) => fails < MaxFail
    /\ fails' = IF Posted(s, message_entry) THEN fails + 1 ELSE fails
    /\ UNCHANGED <<probe_run, shutdown>>
    /\ handlers' = [handlers EXCEPT ![s] =
                      Append(@, [NewHandler(message_entry) EXCEPT !.live = FALSE])]
    /\ UNCHANGED <<masterVars, threadVars, workerVars, s_messages,
                   message_hashes, pending_messages, next_expected_sequence,
                   order_lock>>

\* a request body without any field
NoBody == [k \in {} |-> Absent]

\* a message that is posted only in bodies that lack something
BadMessage == MessageEntry(1, "x")

\* the bodies handle_replication has to reject: the empty one and those
\* that lack one required field
InvalidBodies ==
    {NoBody} \cup {[k \in DOMAIN BadMessage \ {f} |-> BadMessage[k]] :
                      f \in RequiredFields}

\* POST /replicate with a body that is not a message
ClientReplicateInvalid(s, body) ==
    /\ fails < MaxFail
    /\ fails' = fails + 1
    /\ UNCHANGED <<probe_run, shutdown>>
    /\ handlers' = [handlers EXCEPT ![s] =
                      Append(@, [NewHandler(body) EXCEPT !.live = FALSE])]
    /\ UNCHANGED <<masterVars, threadVars, workerVars, s_messages,
                   message_hashes, pending_messages, next_expected_sequence,
                   order_lock>>

InitRecv ==
    InitState(0, [k \in 1..RecvMsgs |-> MessageEntry(k, ToString(k))])

NextRecv ==
    \/ \E k \in 1..RecvMsgs : ClientReplicate(1, messages[k])
    \/ \E body \in InvalidBodies : ClientReplicateInvalid(1, body)
    \/ HandlerStep(1)

SpecRecv == InitRecv /\ [][NextRecv]_vars

(***************************************************************************)
(* SpecJoin: late joiners.  The master log holds JoinMsgs messages         *)
(* (appended with w = 1 while no secondary was known) and no append is in  *)
(* progress; the secondaries register, any number of times, and the new    *)
(* workers deliver the backlog.                                            *)
(***************************************************************************)
\* number of messages of the master log in SpecJoin
JoinMsgs == 3

InitJoin ==
    InitState(0, [k \in 1..JoinMsgs |-> MessageEntry(k, ToString(k))])

NextJoin ==
    \E s \in Sec : RegisterStep(s) \/ WorkerStep(s) \/ HandlerStep(s)

SpecJoin == InitJoin /\ [][NextJoin]_vars

(***************************************************************************)
(* SpecRejoin: SpecJoin with restarts of the secondary processes.  A       *)
(* restarted secondary has lost its state and registers again under its    *)
(* url (SecondaryServer.run with MASTER_URL set).                          *)
(***************************************************************************)
\* the process of a registered secondary is restarted: a new
\* SecondaryServer with empty fields; the requests in progress are lost
\* and a worker that awaits an answer gets a connection error; run()
\* starts register_with_master
SecondaryRestart(s) ==
    /\ s \in Range(replication_managers)
    /\ reg[s].pc = "idle"
    /\ fails < MaxFail
    /\ fails' = fails + 1
    /\ UNCHANGED <<probe_run, shutdown>>
    /\ s_messages' = [s_messages EXCEPT ![s] = <<>>]
    /\ message_hashes' = [message_hashes EXCEPT ![s] = {}]
    /\ pending_messages' = [pending_messages EXCEPT ![s] = << >>]
    /\ next_expected_sequence' = [next_expected_sequence EXCEPT ![s] = 1]
    /\ order_lock' = [order_lock EXCEPT ![s] = NoHolder]
    /\ handlers' = [handlers EXCEPT ![s] = <<>>]
    /\ worker' = [worker EXCEPT ![s].pc =
                     IF @ = "rpc" THEN "backoff" ELSE @]
    /\ reg' = [reg EXCEPT ![s].pc = "rejoin"]
    /\ UNCHANGED <<masterVars, req, queue, enqueued>>

NextRejoin ==
    \/ NextJoin
    \/ \E s \in Sec : SecondaryRestart(s)

SpecRejoin == InitJoin /\ [][NextRejoin]_vars

(***************************************************************************)
(* SpecHealth: SpecJoin for the secondaries 1..PipeSec, with the heartbeat *)
(* monitors running: any probe may fail, and the workers pause while the   *)
(* master does not see their secondary as Healthy.                         *)
(***************************************************************************)
NextHealth ==
    \E s \in 1..PipeSec :
        RegisterStep(s) \/ WorkerStep(s) \/ HandlerStep(s) \/ HealthStep(s)

SpecHealth == InitJoin /\ [][NextHealth]_vars

\* SpecHealth with worker threads that run: a worker that waits for health
\* looks at the status again after every notify_all and at the latest
\* after heartbeat_interval (line 325), and a worker in its loop goes on to
\* session.post (line 101)
SpecHealthFair ==
    /\ SpecHealth
    /\ \A s \in 1..PipeSec :
         /\ WF_vars(WaitForSecondaryHealthy(s))
         /\ WF_vars(WorkerPost(s))

(***************************************************************************)
(* MasterServer.shutdown, the atexit hook; the request threads are daemon  *)
(* threads and go on while it runs.                                        *)
(***************************************************************************)
\* line 189: list(self.replication_managers.values()), read without
\* secondary_lock
ShutdownStart ==
    /\ shutdown.pc = "idle"
    /\ shutdown' = [shutdown EXCEPT !.pc = "managers",
                                    !.todo = replication_managers]
    /\ UNCHANGED <<masterVars, threadVars, workerVars, secVars, fails,
                   probe_run>>

\* lines 189-193 and 66-70: manager.stop() sets the stop_event of the
\* worker, puts None on its queue and joins for at most 5 seconds
StopManager ==
    /\ shutdown.pc = "managers"
    /\ shutdown.todo # <<>>
    /\ worker' = [worker EXCEPT ![Head(shutdown.todo)].stop = TRUE]
    /\ shutdown' = [shutdown EXCEPT !.todo = Tail(@)]
    /\ UNCHANGED <<masterVars, threadVars, queue, enqueued, secVars, fails,
                   probe_run>>

\* lines 195-200: heartbeat_stop_event is set and the monitors are joined
\* for at most 2 seconds each; the hook returns
StopHeartbeats ==
    /\ shutdown.pc = "managers"
    /\ shutdown.todo = <<>>
    /\ shutdown' = [shutdown EXCEPT !.pc = "done",
                                    !.heartbeat_stop_event = TRUE]
    /\ UNCHANGED <<masterVars, threadVars, workerVars, secVars, fails,
                   probe_run>>

\* the steps of the atexit hook
ShutdownStep == ShutdownStart \/ StopManager \/ StopHeartbeats

(***************************************************************************)
(* SpecStop: SpecHealth with the process of the master exiting at any      *)
(* time: the atexit hook runs while secondaries register and workers       *)
(* deliver, wait and retry.                                                *)
(***************************************************************************)
NextStop ==
    \/ \E s \in 1..PipeSec :
          \/ RegisterStep(s)
          \/ WorkerStep(s)
          \/ HandlerStep(s)
          \/ HealthStep(s)
          \/ WorkerStops(s)
    \/ ShutdownStep

SpecStop == InitJoin /\ [][NextStop]_vars

(***************************************************************************)
(* SpecRetry: SpecJoin for the secondaries 1..PipeSec while their process  *)
(* may be down for any time: the worker retries MaxTries times and more.   *)
(***************************************************************************)
NextRetry ==
    \E s \in 1..PipeSec :
        \/ RegisterStep(s)
        \/ WorkerStep(s)
        \/ WorkerPostUnreachable(s)
        \/ HandlerStep(s)

SpecRetry == InitJoin /\ [][NextRetry]_vars

(***************************************************************************)
(* Properties.                                                             *)
(***************************************************************************)
IdsOf(log) == {log[i].id : i \in DOMAIN log}

SequencesOf(log) == {log[i].sequence : i \in DOMAIN log}

\* what the master assigned to a message
Assigned(e) == [id |-> e.id, sequence |-> e.sequence, message |-> e.message]

\* nothing is left to do for the workers and handlers of s
Drained(s) ==
    /\ reg[s].pc = "idle"
    /\ queue[s] = <<>>
    /\ worker[s].pc \in {"none", "get"}
    /\ \A i \in DOMAIN handlers[s] : Stuck(s, handlers[s][i])

\* every request that was sent has returned
NoRequestInFlight == \A r \in Req : req[r].pc \in {"idle", "done"}

\* C1 (prefix property): in every reachable state every secondary holds
\* exactly the messages with ids 1..k, in that order, for some k not above
\* the length of the master log, each as the master assigned it.
C1_PrefixProperty ==
    \A s \in Sec :
        /\ Len(s_messages[s]) <= Len(messages)
        /\ \A i \in DOMAIN s_messages[s] :
             /\ s_messages[s][i].id = i
             /\ \E j \in DOMAIN messages :
                  Assigned(messages[j]) = Assigned(s_messages[s][i])

\* a secondary holds a non-empty strict prefix of the master log
C1_Witness ==
    \E s \in Sec : /\ Len(s_messages[s]) >= 1
                   /\ Len(messages) > Len(s_messages[s])

\* C2 (exactly-once commit): no secondary has a message id twice in its
\* committed log, whatever is re-delivered.
C2_ExactlyOnce ==
    \A s \in Sec : \A i, j \in DOMAIN s_messages[s] :
        i # j => s_messages[s][i].id # s_messages[s][j].id

\* a committed message was delivered again and recognised as duplicate
C2_Witness ==
    \E s \in Sec : \E i \in DOMAIN handlers[s] :
        /\ handlers[s][i].resp = "duplicate"
        /\ handlers[s][i].msg.id \in IdsOf(s_messages[s])

\* C3 (write-concern soundness): an append that returned 201 with w = k
\* has its message in the committed log of at least k-1 secondaries.
C3_WriteConcernSoundness ==
    \A r \in Req :
        (req[r].pc = "done" /\ req[r].status = 201) =>
            Cardinality({s \in Sec : req[r].id \in IdsOf(s_messages[s])})
                >= req[r].w - 1

\* C4 (liveness): once every request has returned and the worker and the
\* handlers of a secondary can do nothing more, the log of that secondary
\* equals the master's.  Stated for appends with distinct payloads and
\* runs without any injected failure, where the secondary was reachable
\* all the time.
C4_Liveness ==
    (/\ NoRequestInFlight
     /\ fails = 0
     /\ \A i, j \in DOMAIN messages :
          i # j => messages[i].message # messages[j].message) =>
        \A s \in Range(replication_managers) :
            Drained(s) =>
                GetMessagesResponse(s_messages[s]) = GetMessagesResponse(messages)

\* C5 (total-order reconstruction): whatever the order of arrival, once
\* all RecvMsgs messages were posted and no handler can do anything more
\* the committed log is m1..mk and the pending buffer is empty; before
\* that, a buffered message is not in the committed log.
C5_TotalOrder ==
    /\ (/\ \A k \in 1..RecvMsgs : messages[k].hash \in message_hashes[1]
        /\ Drained(1)) =>
           /\ GetMessagesResponse(s_messages[1]) = GetMessagesResponse(messages)
           /\ DOMAIN pending_messages[1] = {}
    /\ DOMAIN pending_messages[1] \cap SequencesOf(s_messages[1]) = {}

\* C6 (gap-free ids): whenever no request is between taking its id and
\* appending to the log, the ids in the master log are exactly 1..n, n the
\* number of appended messages.
C6_GapFreeIds ==
    (\A r \in Req : req[r].pc # "append") =>
        IdsOf(messages) = 1..Len(messages)

\* C7 (master log order): in every reachable state the i-th entry of the
\* master log has sequence i, and so has the i-th entry of the answer to
\* GET /messages.
C7_MasterLogOrder ==
    \A i \in DOMAIN messages :
        /\ messages[i].sequence = i
        /\ GetMessagesResponse(messages)[i].id = i

\* C8 (gap-free sequence): in every reachable state the sequences in the
\* committed log of the master and of every secondary are exactly 1..k.
C8_GapFreeSequence ==
    /\ SequencesOf(messages) = 1..Len(messages)
    /\ \A s \in Sec : SequencesOf(s_messages[s]) = 1..Len(s_messages[s])

\* C9 (independence): while an append waits for acknowledgements it holds
\* no lock: GET /messages can be answered, every other append can take
\* its next step (but for a registration that holds secondary_lock), and
\* an append with w = 1 never enters the wait.
C9_Independence ==
    \A r1 \in Req : req[r1].pc = "wait" =>
        /\ message_lock # r1 /\ secondary_lock # r1
        /\ ENABLED HandleGetMessages
        /\ \A r2 \in Req \ {r1} :
             /\ req[r2].pc = "counter" => ENABLED NextId(r2)
             /\ req[r2].pc = "append" => ENABLED AppendLog(r2)
             /\ (req[r2].pc = "fanout" /\ \A s \in Sec : reg[s].pc = "idle")
                   => ENABLED ReplicateToAllSecondaries(r2)
             /\ req[r2].pc = "enqueue" => ENABLED EnqueueMessage(r2)
             /\ req[r2].w = 1 => req[r2].pc \notin {"track", "wait", "cleanup"}

\* an append that took its id later returned 201 while the first one
\* still waits without a single acknowledgement
C9_Witness ==
    \E r1, r2 \in Req :
        /\ req[r1].pc = "wait"
        /\ message_ack_tracker[req[r1].id] = {}
        /\ req[r2].id > req[r1].id
        /\ req[r2].w = 1
        /\ req[r2].pc = "done" /\ req[r2].status = 201

\* C10 (w = 1): an append with w = 1 never waits and never has an entry
\* in the ack tracker; once it has returned (201, unless hashing the
\* payload raised) its message was put on the queue of every manager.
C10_W1Immediate ==
    \A r \in Req : req[r].w = 1 =>
        /\ req[r].pc \notin {"track", "wait", "cleanup"}
        /\ req[r].id \notin DOMAIN message_ack_tracker
        /\ (req[r].pc = "done" /\ ~EncodeRaises(req[r].message)) =>
              /\ req[r].status = 201
              /\ \A s \in Range(replication_managers) :
                     req[r].id \in Range(enqueued[s])

\* an append with w = 1 returned 201 and every secondary has a manager
C10_Witness ==
    \E r \in Req :
        /\ req[r].w = 1 /\ req[r].pc = "done" /\ req[r].status = 201
        /\ Len(replication_managers) = NumSec
        /\ \A s \in Sec : req[r].id \in Range(enqueued[s])

\* the worker of s got a 200 for message_id: it took the message off its
\* queue and left _deliver_with_retry, which only a 200 lets it do
WorkerSucceeded(s, message_id) ==
    /\ message_id \in Range(enqueued[s])
    /\ \A j \in DOMAIN queue[s] : queue[s][j].id # message_id
    /\ worker[s].cur.id # message_id

\* C11 (acknowledged append commits): wait_for_write_concern never gives
\* up on its deadline when the workers of at least w-1 secondaries have
\* already got a success response for the message.
C11_AckedAppendCommits ==
    [][\A r \in Req :
         WaitForWriteConcernTimeout(r) =>
             Cardinality({s \in Sec : WorkerSucceeded(s, req[r].id)})
                 < Required(r)]_vars

\* the worker of s still has message_id to deliver
WorkerHolds(s, message_id) ==
    \/ \E j \in DOMAIN queue[s] : queue[s][j].id = message_id
    \/ worker[s].cur.id = message_id

\* C12 (write-concern timeout): an append answered 202 had a deadline; its
\* message is in the master log, and for every replication manager the
\* message was enqueued and is still with the worker unless the secondary
\* has received it.
C12_TimeoutKeepsReplicating ==
    \A r \in Req :
        (req[r].pc = "done" /\ req[r].status = 202) =>
            /\ req[r].timeout # Missing
            /\ req[r].id \in IdsOf(messages)
            /\ \A s \in Range(replication_managers) :
                 /\ req[r].id \in Range(enqueued[s])
                 /\ \/ WorkerHolds(s, req[r].id)
                    \/ Sha256(req[r].message) \in message_hashes[s]

\* an append returned 202 and a worker has yet to deliver its message to a
\* secondary that never received it
C12_Witness ==
    \E r \in Req, s \in Range(replication_managers) :
        /\ req[r].pc = "done" /\ req[r].status = 202
        /\ WorkerHolds(s, req[r].id)
        /\ Sha256(req[r].message) \notin message_hashes[s]

\* C13 (invalid argument): a POST /messages is answered 400 exactly when
\* the payload is absent or w (N+1 when not given) is outside 1..N+1, N the
\* number of known secondaries; a rejected request takes no id and leaves
\* the master log, the worker queues and the ack tracker as they were.
C13_InvalidArgument ==
    [][\A r \in Req, m \in Payloads \cup {NonString, Absent},
          w \in {Missing} \cup 0..(NumSec + 2), t \in Timeouts :
         PostMessage(r, m, w, t) =>
            LET N == Len(secondaries)
                write_concern == IF w = Missing THEN N + 1 ELSE w
                invalid == m = Absent \/ write_concern \notin 1..(N + 1)
            IN  /\ invalid <=> (req'[r].pc = "done" /\ req'[r].status = 400)
                /\ invalid => /\ req'[r].id = 0
                              /\ UNCHANGED <<next_id, messages, queue,
                                             enqueued, message_ack_tracker>>
                /\ ~invalid => req'[r].pc = "counter"]_vars

\* a request was rejected after another one was appended, and the counter
\* follows the log
C13_Witness ==
    \E r \in Req :
        /\ req[r].pc = "done" /\ req[r].status = 400
        /\ Len(messages) >= 1
        /\ next_id = Len(messages) + 1

\* the handler thread i of secondary s has put its own message into the
\* committed log
Committed(s, i) ==
    /\ handlers[s][i].pc \in {"respond", "blocked"}
    /\ handlers[s][i].resp # "duplicate"
    /\ \E j \in DOMAIN s_messages[s] :
         Assigned(s_messages[s][j]) = Assigned(handlers[s][i].msg)

C15_LateJoin ==
    \A s \in Range(replication_managers) :
        /\ enqueued[s] = [j \in DOMAIN messages |-> messages[j].id]
        /\ (Drained(s) /\ fails = 0) =>
              GetMessagesResponse(s_messages[s]) = GetMessagesResponse(messages)

\* last_sequence of secondary s, as its /health and /sync report it
LastSequence(s) ==
    IF s_messages[s] = <<>> THEN 0
    ELSE s_messages[s][Len(s_messages[s])].sequence

\* C16 (catch-up on re-registration): when a known secondary registers
\* again, every message of the master log with a sequence above the
\* secondary's last_sequence is on the queue of its worker, or in the
\* worker's hands, once the registration is answered.
C16_CatchUpOnReRegistration ==
    [][\A s \in Sec :
         (reg[s].pc = "rejoin" /\ reg'[s].pc = "idle") =>
            \A j \in DOMAIN messages :
                messages[j].sequence > LastSequence(s) =>
                    \/ \E q \in DOMAIN queue'[s] :
                          queue'[s][q].id = messages[j].id
                    \/ worker'[s].cur.id = messages[j].id]_vars

\* the sequence q holds no element twice
NoDuplicates(q) == \A i, j \in DOMAIN q : i # j => q[i] # q[j]

\* C17 (idempotent registration): whatever registrations were made, a url
\* is at most once in the secondary list and in the managers, the urls
\* with a monitor are the urls with a manager, every manager has a worker,
\* and the backlog (the master log, no append being made) was put on that
\* worker's queue exactly once.
C17_RegisterIdempotent ==
    /\ NoDuplicates(secondaries)
    /\ NoDuplicates(replication_managers)
    /\ heartbeat_threads = Range(replication_managers)
    /\ \A s \in Range(replication_managers) :
         /\ s \in Range(secondaries)
         /\ worker[s].pc # "none"
         /\ NoDuplicates(enqueued[s])
         /\ Range(enqueued[s]) = IdsOf(messages)

\* a secondary registered again after a restart, and the registration was
\* answered: its worker has delivered a message that the secondary, which
\* lost its state, no longer knows
C17_Witness ==
    \E s \in Range(replication_managers) :
        /\ reg[s].pc = "idle"
        /\ \E j \in DOMAIN messages :
             /\ ~WorkerHolds(s, messages[j].id)
             /\ messages[j].hash \notin message_hashes[s]

\* C18 (flapping replica): a secondary is Unhealthy only when its current
\* run of consecutive failed probes has reached the threshold; while every
\* run is shorter its status is Healthy after a good probe and Suspected
\* after a failed one.
C18_Flapping ==
    \A s \in Sec :
        /\ secondary_health[s].status = "Unhealthy" =>
               probe_run[s] >= HeartbeatUnhealthyThreshold
        /\ (secondary_health[s] # NoInfo /\ probe_run[s] = 0) =>
               secondary_health[s].status = "Healthy"
        /\ probe_run[s] \in 1..(HeartbeatUnhealthyThreshold - 1) =>
               secondary_health[s].status = "Suspected"

\* the longest run of failed probes that stays below the threshold
C18_Witness ==
    \E s \in Sec :
        /\ probe_run[s] = HeartbeatUnhealthyThreshold - 1
        /\ secondary_health[s].status = "Suspected"

\* request r got past the append to the master log
Appended(r) ==
    \/ req[r].pc \in {"fanout", "enqueue", "track", "wait", "cleanup"}
    \/ req[r].pc = "done" /\ req[r].status \in {201, 202}

\* C19 (no deduplication on the master): every append that got as far as
\* the log has exactly one entry there, with its own id and its payload,
\* whatever the payloads of the other entries; the log has as many entries
\* as there were such appends.
C19_NoMasterDedup ==
    /\ \A r \in Req :
         Appended(r) =>
            Cardinality({j \in DOMAIN messages :
                           /\ messages[j].id = req[r].id
                           /\ messages[j].message = req[r].message}) = 1
    /\ \A r1, r2 \in Req :
         (r1 # r2 /\ Appended(r1) /\ Appended(r2)) => req[r1].id # req[r2].id
    /\ Len(messages) = Cardinality({r \in Req : Appended(r)})

\* MaxAppends appends of one payload were answered and the log holds
\* MaxAppends entries
C19_Witness ==
    /\ \A r \in Req : req[r].pc = "done" /\ req[r].status \in {201, 202}
    /\ \A r \in Req : req[r].message = "a"
    /\ Len(messages) = MaxAppends

\* C20 (bad request): a /replicate body that is empty or lacks a required
\* field is answered 400 and leaves no trace on the secondary: its hash is
\* not in the dedup set and its message is neither in the pending buffer
\* nor in the committed log; a complete body is never answered 400.
C20_BadRequest ==
    \A s \in Sec :
        /\ BadMessage.hash \notin message_hashes[s]
        /\ \A j \in DOMAIN s_messages[s] :
             s_messages[s][j].message # BadMessage.message
        /\ \A k \in DOMAIN pending_messages[s] :
             pending_messages[s][k].message # BadMessage.message
        /\ \A i \in DOMAIN handlers[s] :
             /\ ~ValidBody(handlers[s][i].msg) =>
                   /\ handlers[s][i].pc \in {"recv", "respond"}
                   /\ handlers[s][i].pc = "respond" =>
                         StatusCode(handlers[s][i].resp) = 400
             /\ ValidBody(handlers[s][i].msg) =>
                   StatusCode(handlers[s][i].resp) = 200

\* a body that lacks a field is about to be answered 400 by a secondary
\* that expects sequence 1, the sequence the body carries
C20_Witness ==
    \E i \in DOMAIN handlers[1] :
        /\ handlers[1][i].msg # NoBody
        /\ ~ValidBody(handlers[1][i].msg)
        /\ "sequence" \in DOMAIN handlers[1][i].msg
        /\ handlers[1][i].pc = "respond"
        /\ next_expected_sequence[1] = 1

\* the messages the worker of s still has: the one in its hands, then its
\* queue
Outstanding(s) ==
    (IF worker[s].cur = NoMessage THEN <<>> ELSE <<worker[s].cur.id>>)
        \o [j \in DOMAIN queue[s] |-> queue[s][j].id]

\* the number of messages the worker of s has got a 200 for
Finished(s) == Len(enqueued[s]) - Len(Outstanding(s))

\* C21 (per-replica FIFO delivery): the messages a worker has finished are
\* a prefix of what was enqueued and the rest is outstanding in enqueue
\* order; every RPC ever sent carries a finished message or the one in the
\* worker's hands; at most one RPC is awaited, and it carries the message
\* in the worker's hands.
C21_FifoDelivery ==
    \A s \in Range(replication_managers) :
        /\ Finished(s) >= 0
        /\ Outstanding(s) =
              SubSeq(enqueued[s], Finished(s) + 1, Len(enqueued[s]))
        /\ \A i \in DOMAIN handlers[s] :
              \E k \in 1..Min(Finished(s) + 1, Len(enqueued[s])) :
                  handlers[s][i].msg.id = enqueued[s][k]
        /\ Cardinality({i \in DOMAIN handlers[s] : handlers[s][i].live}) <= 1
        /\ \A i \in DOMAIN handlers[s] :
              handlers[s][i].live =>
                  /\ worker[s].pc = "rpc"
                  /\ handlers[s][i].msg = worker[s].cur

\* the worker awaits the answer for the second message it was given while
\* a request for the first one is still being handled
C21_Witness ==
    \E s \in Range(replication_managers) : \E i, j \in DOMAIN handlers[s] :
        /\ Finished(s) = 1
        /\ handlers[s][i].live
        /\ handlers[s][i].msg.id = enqueued[s][2]
        /\ handlers[s][j].msg.id = enqueued[s][1]
        /\ queue[s] # <<>>

\* C22 (enqueue order equals id order): on every worker the messages were
\* put on the queue in id order: no message was enqueued after one with a
\* higher id (the least that "strictly increasing" asks for).
C22_EnqueueInIdOrder ==
    \A s \in Sec : \A i, j \in DOMAIN enqueued[s] :
        i < j => enqueued[s][i] <= enqueued[s][j]

\* the fan-out of request r has still to put its message on the queue of s
FanOutPending(r, s) ==
    \/ req[r].pc = "fanout"
    \/ req[r].pc = "enqueue" /\ s \in Range(req[r].todo)

\* the registration of s has still to put the message on the queue of s
BacklogPending(s, message_id) ==
    \/ reg[s].pc = "snapshot"
    \/ reg[s].pc = "backlog" /\ message_id \in IdsOf(reg[s].backlog)

\* C23 (no message misses a worker): every message of the master log was put
\* on the queue of every registered secondary at least once, unless the
\* thread that has to do so (the fan-out of the appending request, or the
\* registration of that secondary) is still on its way to do it; whatever w
\* is and however registration and append interleave.
C23_NoMessageMissesWorker ==
    \A s \in Range(secondaries) : \A i \in DOMAIN messages :
        \/ messages[i].id \in Range(enqueued[s])
        \/ BacklogPending(s, messages[i].id)
        \/ \E r \in Req : req[r].id = messages[i].id /\ FanOutPending(r, s)

\* a message reached the worker of a secondary through the backlog of a
\* registration that ran between the append and the fan-out of its request,
\* and the other message through the fan-out
C23_Witness ==
    \E r, q \in Req : \E s \in Range(replication_managers) :
        /\ Appended(r) /\ req[r].pc = "fanout"
        /\ req[r].id \in Range(enqueued[s])
        /\ Appended(q) /\ req[q].pc = "done"
        /\ req[q].id \in Range(enqueued[s])

\* the worker of s leaves _deliver_with_retry by the success branch: the
\* answer to its request is a 200 and ack_callback is called
DeliverySucceeds(s) ==
    \E i \in DOMAIN handlers[s] :
        /\ handlers[s][i].live
        /\ handlers[s][i].msg = worker[s].cur
        /\ StatusCode(handlers[s][i].resp) = 200
        /\ HandlerRespond(s, i)
        /\ message_ack_tracker' =
             HandleSecondaryAck(message_ack_tracker, s, worker[s].cur.id)

C25_BackoffSchedule ==
    [][\A s \in Sec :
         /\ worker[s].cur # NoMessage =>
              /\ worker[s].delay =
                   Min(InitialRetryDelay * 2^worker[s].tries, MaxRetryDelay)
              /\ worker[s].delay <= MaxRetryDelay
              /\ worker[s].tries = 0 => worker[s].delay = InitialRetryDelay
         /\ (worker[s].cur # NoMessage /\ worker'[s].cur = worker[s].cur) =>
              worker'[s].delay >= worker[s].delay
         /\ (worker'[s].cur # NoMessage /\ worker'[s].cur # worker[s].cur) =>
              worker'[s].delay = InitialRetryDelay]_vars

\* a worker whose message had so many retries that the delay is clamped,
\* and a worker that starts its next message after a clamped one
C25_Witness ==
    \E s \in Sec :
        /\ worker[s].cur # NoMessage
        /\ InitialRetryDelay * 2^worker[s].tries > MaxRetryDelay
        /\ worker[s].delay = MaxRetryDelay
        /\ worker[s].pc = "backoff"
        /\ Finished(s) >= 1

\* C26 (health state machine): a probe that succeeds leaves failure_count 0
\* and status Healthy; a probe that fails adds one to failure_count (0 for
\* a secondary without a record) and leaves status Suspected if the new
\* failure_count is below heartbeat_unhealthy_threshold, else Unhealthy.
\* So wherever there is a record, status = Healthy iff failure_count = 0
\* and status = Unhealthy iff failure_count >= the threshold.
C26_HealthStateMachine ==
    [][\A s \in Sec :
         LET old == secondary_health[s]
             new == secondary_health'[s]
         IN  /\ old # NoInfo =>
                  /\ old.status \in {"Healthy", "Suspected", "Unhealthy"}
                  /\ old.status = "Healthy" <=> old.failure_count = 0
                  /\ old.status = "Unhealthy" <=>
                       old.failure_count >= HeartbeatUnhealthyThreshold
             /\ (new # old /\ probe_run'[s] = 0) =>
                  new = [status |-> "Healthy", failure_count |-> 0]
             /\ probe_run'[s] = probe_run[s] + 1 =>
                  /\ new.failure_count = old.failure_count + 1
                  /\ new.status =
                       IF new.failure_count < HeartbeatUnhealthyThreshold
                       THEN "Suspected" ELSE "Unhealthy"
             /\ new # old => probe_run'[s] \in {0, probe_run[s] + 1}]_vars

\* the failed probe that reaches the threshold has made the secondary
\* Unhealthy
C26_Witness ==
    \E s \in Sec :
        /\ secondary_health[s].status = "Unhealthy"
        /\ secondary_health[s].failure_count = HeartbeatUnhealthyThreshold
        /\ probe_run[s] = HeartbeatUnhealthyThreshold

\* C27 (Suspected does not pause retries): a worker starts to wait on the
\* health condition only when the status of its secondary is Unhealthy;
\* while the status is Suspected it goes on with the replicate RPC.
C27_SuspectedKeepsRetrying ==
    [][\A s \in Sec :
         (worker[s].pc = "loop" /\ worker'[s].pc = "wait_healthy") =>
             secondary_health[s].status = "Unhealthy"]_vars

\* C28 (health pause loses nothing and ends): while a worker waits for its
\* secondary to be healthy it keeps its current message and its queue
\* loses nothing, and it leaves the wait only for its retry loop, with the
\* same message; and once the status is Healthy again the waiting worker
\* gets to the replicate RPC for that message (answered or raising),
\* unless the status leaves Healthy again before.
C28_PauseLosesNothingAndEnds ==
    /\ [][\A s \in Sec :
            worker[s].pc = "wait_healthy" =>
                /\ worker[s].cur # NoMessage
                /\ worker'[s].cur = worker[s].cur
                /\ SubSeq(queue'[s], 1, Len(queue[s])) = queue[s]
                /\ worker'[s].pc \in {"wait_healthy", "loop"}]_vars
    /\ \A s \in 1..PipeSec :
         (worker[s].pc = "wait_healthy" /\ IsSecondaryHealthy(s))
             ~> \/ worker[s].pc \in {"rpc", "backoff"}
                \/ ~IsSecondaryHealthy(s)

\* a probe has set the status back to Healthy while the worker waits with
\* a message in hand and more on its queue
C28_Witness ==
    \E s \in Sec :
        /\ worker[s].pc = "wait_healthy"
        /\ worker[s].cur # NoMessage
        /\ queue[s] # <<>>
        /\ secondary_health[s].status = "Healthy"

\* the positions of the enqueue history of s whose delivery is over: the
\* worker got a 200 for each and called ack_callback(s, id)
AckCalls(s, message_id) ==
    {k \in 1..Finished(s) : enqueued[s][k] = message_id}

\* C29 (ack idempotence): the ack set of a message holds only secondaries
\* whose worker called ack for that message, each once however often it
\* called, so its size never exceeds the number of distinct secondaries that
\* acknowledged the message.
C29_AckIdempotence ==
    \A id \in DOMAIN message_ack_tracker :
        LET acknowledged == {s \in Sec : AckCalls(s, id) # {}}
        IN  /\ message_ack_tracker[id] \subseteq acknowledged
            /\ Acked(id) <= Cardinality(acknowledged)

\* a secondary has acknowledged the same message twice (it was enqueued
\* from the backlog and by the fan-out) while the request still waits, and
\* the ack set holds it once
C29_Witness ==
    \E r \in Req : \E s \in Sec :
        /\ req[r].pc = "wait"
        /\ Cardinality(AckCalls(s, req[r].id)) >= 2
        /\ message_ack_tracker[req[r].id] = {s}

\* C30 (ack without a tracker entry): when a worker gets its 200 and calls
\* ack for a message id that has no entry in the tracker (not yet created,
\* never created, or cleaned up), the tracker stays as it is, without a new
\* entry, and no request changes: no waiter sees another count.
C30_AckWithoutEntryDropped ==
    [][\A s \in Sec :
         (/\ worker[s].cur # NoMessage
          /\ worker'[s].cur # worker[s].cur
          /\ worker[s].cur.id \notin DOMAIN message_ack_tracker)
             => /\ message_ack_tracker' = message_ack_tracker
                /\ req' = req]_vars

\* a worker called ack for a message before its request created the
\* tracker entry; the request now waits and the entry is empty
C30_Witness ==
    \E r \in Req : \E s \in Sec :
        /\ req[r].pc = "wait"
        /\ AckCalls(s, req[r].id) # {}
        /\ message_ack_tracker[req[r].id] = {}

\* request r is between initialize_ack_tracking and its return
Tracking(r) == req[r].pc \in {"wait", "cleanup"}

\* C31 (ack-tracker cleanup): an append with w > 1 that has returned 201 or
\* 202 has no entry in the tracker, and every key of the tracker is the id
\* of an append that is between initialize_ack_tracking and its return.
C31_TrackerCleanup ==
    /\ \A r \in Req :
         (req[r].pc = "done" /\ req[r].status \in {201, 202}) =>
             req[r].id \notin DOMAIN message_ack_tracker
    /\ \A id \in DOMAIN message_ack_tracker :
         \E r \in Req : req[r].id = id /\ Tracking(r)

\* C32 (in-order insert terminates): a handler whose message has the next
\* expected sequence E leaves insert_in_total_order with the message
\* appended to the committed log, the pending buffer drained from E + 1 on,
\* next_expected_sequence after the last one drained, order_lock free, and
\* its response ready.
C32_InOrderInsertTerminates ==
    [][\A s \in Sec : \A i \in DOMAIN handlers[s] :
         LET h == handlers[s][i]
             e == next_expected_sequence[s]
             drained == DrainPending(Append(s_messages[s], ReplicaEntry(h.msg, s)),
                                     pending_messages[s], e + 1)
         IN  (/\ h.pc = "insert"
              /\ h.msg.sequence = e
              /\ Len(handlers'[s]) = Len(handlers[s])
              /\ handlers'[s][i].pc # "insert")
                 => /\ handlers'[s][i].pc = "respond"
                    /\ order_lock'[s] = NoHolder
                    /\ s_messages'[s] = drained.log
                    /\ pending_messages'[s] = drained.pending
                    /\ next_expected_sequence'[s] = drained.e]_vars

\* C33 (pending-buffer invariant): on every secondary, while no insert
\* holds order_lock, every key of the pending buffer is greater than
\* next_expected_sequence; and no message is both in the committed log and
\* in the pending buffer.
C33_PendingBuffer ==
    \A s \in Sec :
        /\ order_lock[s] = NoHolder =>
              \A k \in DOMAIN pending_messages[s] :
                  k > next_expected_sequence[s]
        /\ \A k \in DOMAIN pending_messages[s] :
              /\ pending_messages[s][k].sequence = k
              /\ k \notin SequencesOf(s_messages[s])

\* two messages wait in the pending buffer for the one before them, and no
\* insert is under way
C33_Witness ==
    \E s \in Sec :
        /\ order_lock[s] = NoHolder
        /\ Cardinality(DOMAIN pending_messages[s]) >= 2
        /\ \A i \in DOMAIN handlers[s] : handlers[s][i].pc # "insert"

\* the state of secondary s that a replicate call can change
ReplicaState(s) ==
    <<s_messages[s], pending_messages[s], next_expected_sequence[s],
      message_hashes[s]>>

\* C34 (duplicate changes nothing): a replicate call whose hash is already
\* in the dedup set goes straight to the response "duplicate", which is
\* sent with status 200, and neither step changes the committed log, the
\* pending buffer, next_expected_sequence or the dedup set.
C34_DuplicateChangesNothing ==
    [][\A s \in Sec : \A i \in DOMAIN handlers[s] :
         LET h == handlers[s][i]
         IN  /\ (/\ h.pc = "recv"
                 /\ ValidBody(h.msg)
                 /\ h.msg.hash \in message_hashes[s]
                 /\ Len(handlers'[s]) = Len(handlers[s])
                 /\ handlers'[s][i] # h)
                    => /\ handlers'[s][i] =
                            [h EXCEPT !.pc = "respond", !.resp = "duplicate"]
                       /\ ReplicaState(s)' = ReplicaState(s)
             /\ (/\ h.pc = "respond"
                 /\ h.resp = "duplicate"
                 /\ handlers'[s] = RemoveAt(handlers[s], i))
                    => /\ HandlerRespond(s, i)
                       /\ StatusCode(h.resp) = 200
                       /\ ReplicaState(s)' = ReplicaState(s)]_vars

\* a message was posted again after the secondary had stored it, and the
\* second call is about to be answered "duplicate"
C34_Witness ==
    \E s \in Sec : \E i \in DOMAIN handlers[s] :
        /\ handlers[s][i].pc = "respond"
        /\ handlers[s][i].resp = "duplicate"
        /\ handlers[s][i].msg.id \in IdsOf(s_messages[s])

\* C35 (stop signal): when the shutdown hook returns, the stop_event of
\* the worker of every replication manager is set and so is
\* heartbeat_stop_event: every worker and every health monitor has been
\* told to stop.
C35_ShutdownStopsAll ==
    [][(shutdown.pc # "done" /\ shutdown'.pc = "done") =>
          /\ shutdown'.heartbeat_stop_event
          /\ \A s \in Range(replication_managers') : worker'[s].stop]_vars

\* the ids of the messages secondary s holds: committed log and pending
\* buffer
HeldIds(s) ==
    IdsOf(s_messages[s])
        \cup {pending_messages[s][k].id : k \in DOMAIN pending_messages[s]}

\* a replicate call for message_id is on its way to store it on s
InsertInProgress(s, message_id) ==
    \E i \in DOMAIN handlers[s] :
        /\ handlers[s][i].msg.id = message_id
        /\ handlers[s][i].pc \in {"recv", "insert"}
        /\ ~Stuck(s, handlers[s][i])

\* C36 (acknowledged means held): every message for which the worker of a
\* secondary got a 200 from /replicate is in the committed log or in the
\* pending buffer of that secondary, equal payloads included, at the
\* latest when no call that could still store it is in progress.
C36_AcknowledgedMeansHeld ==
    \A s \in Sec : \A k \in 1..Finished(s) :
        \/ enqueued[s][k] \in HeldIds(s)
        \/ InsertInProgress(s, enqueued[s][k])

\* C37 (worker count matches N): whenever no registration is under way, the
\* master has as many replication workers and as many heartbeat monitors
\* as its secondaries list has entries (the N of the w validation), for a
\* list seeded from SECONDARIES as for registrations.
C37_WorkerCountMatchesN ==
    secondary_lock = NoHolder =>
        /\ Len(replication_managers) = Len(secondaries)
        /\ Cardinality(heartbeat_threads) = Len(secondaries)

\* the threads of the master that take message_lock or secondary_lock
LockThreads == Req \cup {RegThread(s) : s \in Sec}

\* the thread that holds the lock thread t is waiting for; NoHolder when t
\* waits for no lock or the lock is free.  A request waits for
\* message_lock before its append and for secondary_lock before its
\* fan-out; a registration that has secondary_lock waits for message_lock
\* before its backlog copy
WaitsFor(t) ==
    IF t \in Req
    THEN CASE req[t].pc = "append" -> message_lock
           [] req[t].pc = "fanout" -> secondary_lock
           [] OTHER -> NoHolder
    ELSE IF \E s \in Sec : t = RegThread(s) /\ reg[s].pc = "snapshot"
         THEN message_lock
         ELSE NoHolder

\* thread t holds message_lock or secondary_lock
HoldsLock(t) == message_lock = t \/ secondary_lock = t

\* C38 (the master is deadlock-free): no thread waits for a lock it holds
\* itself and no two threads wait for a lock the other holds; only request
\* and registration threads hold message_lock or secondary_lock, and a
\* request that is blocked on its ack wait holds neither, nor does a
\* registration that is not running.
C38_DeadlockFree ==
    /\ \A t \in LockThreads : WaitsFor(t) # t
    /\ \A t, u \in LockThreads : ~(WaitsFor(t) = u /\ WaitsFor(u) = t)
    /\ message_lock \in LockThreads \cup {NoHolder}
    /\ secondary_lock \in LockThreads \cup {NoHolder}
    /\ \A r \in Req :
         req[r].pc \in {"idle", "wait", "done"} => ~HoldsLock(r)
    /\ \A s \in Sec :
         reg[s].pc \in {"idle", "rejoin"} => ~HoldsLock(RegThread(s))

\* a registration holds secondary_lock and is about to take message_lock,
\* a request waits for secondary_lock for its fan-out, and another request
\* is blocked on its ack wait
C38_Witness ==
    \E s \in Sec : \E r, q \in Req :
        /\ secondary_lock = RegThread(s)
        /\ reg[s].pc = "snapshot"
        /\ req[r].pc = "fanout"
        /\ req[q].pc = "wait"

\* C39 (no positive timeout, no PartiallyCommitted): a request whose
\* timeout_ms is absent or 0, the global default being 0, waits without a
\* deadline; such a request never has status 202 and leaves its ack wait
\* only with 201, when w-1 acks are recorded.  A positive timeout_ms is the
\* deadline whatever the global default is.
C39_NoTimeoutNoPartialCommit ==
    [][\A r \in Req :
         /\ \A w \in 1..(PipeSec + 1), t \in {Missing, 0} :
              (PostMessage(r, "a", w, t) /\ req'[r].pc = "counter") =>
                  req'[r].timeout = Missing
         /\ req[r].timeout = Missing => req[r].status # 202
         /\ (/\ req[r].timeout = Missing
             /\ req[r].pc = "wait"
             /\ req'[r].pc # "wait")
                => /\ Acked(req[r].id) >= Required(r)
                   /\ req'[r].status = 201
         /\ \A write_concern_timeout \in 0..2 :
              GetWaitTimeoutWith(1000, write_concern_timeout) = 1000]_vars

\* an append with w = 2 and no deadline has returned 201 after its ack,
\* and another one is still blocked with no ack recorded
C39_Witness ==
    \E r, q \in Req :
        /\ req[r].w = 2 /\ req[r].timeout = Missing
        /\ req[r].pc = "done" /\ req[r].status = 201
        /\ req[q].w = 2 /\ req[q].timeout = Missing
        /\ req[q].pc = "wait" /\ Acked(req[q].id) = 0

\* C40 (next_expected_sequence counts the committed log): on a secondary,
\* whenever no insert holds order_lock, next_expected_sequence is the length
\* of the committed log plus one; no step lowers it, and every step raises
\* it by exactly the number of messages the step commits.
C40_NextExpectedCountsLog ==
    [][\A s \in Sec :
         /\ order_lock[s] = NoHolder =>
              next_expected_sequence[s] = Len(s_messages[s]) + 1
         /\ order_lock'[s] = NoHolder =>
              next_expected_sequence'[s] = Len(s_messages'[s]) + 1
         /\ next_expected_sequence'[s] >= next_expected_sequence[s]
         /\ next_expected_sequence'[s] - next_expected_sequence[s] =
              Len(s_messages'[s]) - Len(s_messages[s])]_vars

\* a message was committed in order while a later one is buffered, and the
\* secondary expects the one after the committed message
C40_Witness ==
    \E s \in Sec :
        /\ Len(s_messages[s]) = 1
        /\ s_messages[s][1].sequence = 1
        /\ next_expected_sequence[s] = 2
        /\ DOMAIN pending_messages[s] # {}

=============================================================================
